---- MODULE Spec2Model ----
(***************************************************************************)
(* Role-based access control for homeroom and general teachers.            *)
(*                                                                         *)
(* Two policy engines are modelled, each from its own source:              *)
(*   RBAC_*        class RoleBasedAccessControl  (teacher-rbac-system.ts)  *)
(*   RBACService_* class RBACService             (services/RBACService.ts) *)
(* together with the entry points that wrap them                           *)
(* (TeacherService.checkPermission, AuthProvider.checkPermission,          *)
(* RBACService.canAccessScreen, getRolePermissions).                       *)
(*                                                                         *)
(* A state holds one call (the operation and its arguments) and, once the  *)
(* operation has run, what it returned or threw.                           *)
(*                                                                         *)
(* The school management system of teacher-rbac-system.ts is modelled on   *)
(* top of the engines: the user registry (TeacherService), the session     *)
(* (AuthService), the RequirePermission and RequireRole guards and the     *)
(* student, grade and attendance services with their stores.               *)
(***************************************************************************)
EXTENDS Integers, FiniteSets, Sequences, TLC

VARIABLES
    rolePermissions,  \* the role -> permission table of each engine
    users,            \* TeacherService.users: the user registry
    currentUser,      \* AuthService.currentUser: a registry key, or NoUser
    students,         \* StudentService.students
    grades,           \* GradeService.grades
    attendanceRecords,\* AttendanceService.attendanceRecords
    noted,            \* an earlier decision of checkPermission, kept to compare
    provider,         \* the AuthProvider: session user, stored item, calls
    quiz,             \* the quiz page: question, answers, timers
    call,             \* the operation called and its arguments
    pc,               \* "called" before the operation ran, "returned" after
    result            \* what the operation returned or threw

vars ==
    <<rolePermissions, users, currentUser, students, grades,
      attendanceRecords, noted, provider, quiz, call, pc, result>>

----------------------------------------------------------------------------
(* Bounds of the model: how many class, subject and student ids exist.     *)

NumClasses == 2
NumSubjects == 2
NumStudents == 1

----------------------------------------------------------------------------
(* Values.                                                                 *)

\* An optional id that is absent (JavaScript undefined; falsy).  Ids that
\* are present are the positive numbers; every present id is truthy.
Undefined == 0

ClassId == 1..NumClasses        \* 1 is 'class-3-1'
SubjectId == 1..NumSubjects     \* 1 is 'math', 2 is 'science'
StudentId == 1..NumStudents     \* 1 is 'student1'

HOMEROOM_TEACHER == "homeroom_teacher"
GENERAL_TEACHER == "general_teacher"
TeacherRole == {HOMEROOM_TEACHER, GENERAL_TEACHER}

\* Role values a caller can pass although they are outside the enumeration:
\* a string that names nothing, and a string that names a property every
\* JavaScript object inherits from Object.prototype.
ObjectPrototypeKeys == {"constructor"}
UnknownRoles == {"principal"} \cup ObjectPrototypeKeys
RoleValues == TeacherRole \cup UnknownRoles

VIEW_STUDENTS == "view_students"
MANAGE_STUDENTS == "manage_students"
EDIT_STUDENT_INFO == "edit_student_info"
VIEW_GRADES == "view_grades"
MANAGE_GRADES == "manage_grades"
EXPORT_GRADES == "export_grades"
VIEW_ATTENDANCE == "view_attendance"
MANAGE_ATTENDANCE == "manage_attendance"
VIEW_PARENT_INFO == "view_parent_info"
CONTACT_PARENTS == "contact_parents"
MANAGE_CLASS == "manage_class"
VIEW_CLASS_REPORTS == "view_class_reports"
CONDUCT_COUNSELING == "conduct_counseling"
VIEW_COUNSELING_RECORDS == "view_counseling_records"

Permission ==
    { VIEW_STUDENTS, MANAGE_STUDENTS, EDIT_STUDENT_INFO,
      VIEW_GRADES, MANAGE_GRADES, EXPORT_GRADES,
      VIEW_ATTENDANCE, MANAGE_ATTENDANCE,
      VIEW_PARENT_INFO, CONTACT_PARENTS,
      MANAGE_CLASS, VIEW_CLASS_REPORTS,
      CONDUCT_COUNSELING, VIEW_COUNSELING_RECORDS }

\* A user whose subjectIds field is absent carries this marker instead of a
\* set of subject ids (no subject id is Undefined, so nothing is in it).
NoSubjectIds == {Undefined}

\* The subject lists a user may carry: absent, or any list of subjects.
SubjectIdLists == {NoSubjectIds} \cup SUBSET SubjectId

\* interface User.  isNull marks the null reference passed where a User is
\* expected; its other fields are then never read.
User ==
    [ isNull : {FALSE}, id : {"teacher0"}, email : {"teacher0@school.edu"},
      role : RoleValues,
      isActive : BOOLEAN, classId : ClassId \cup {Undefined},
      subjectIds : SubjectIdLists ]

NullUser ==
    [ isNull |-> TRUE, id |-> "null", email |-> "null",
      role |-> HOMEROOM_TEACHER,
      isActive |-> FALSE, classId |-> Undefined, subjectIds |-> NoSubjectIds ]

\* The resource argument (resource?: any).  present = FALSE is the omitted
\* argument; a present resource carries any subset of the three ids.
Resource ==
    [ present : {TRUE}, classId : ClassId \cup {Undefined},
      subjectId : SubjectId \cup {Undefined},
      studentId : StudentId \cup {Undefined} ]

NoResource ==
    [ present |-> FALSE, classId |-> Undefined, subjectId |-> Undefined,
      studentId |-> Undefined ]

\* Mutant of ResourceStudentId: the counseling rule reads the wrong field.
ResourceStudentId_classField(resource) ==
    IF resource.present THEN resource.classId ELSE Undefined

\* resource?.classId, resource?.subjectId, resource?.studentId
ResourceClassId(resource) ==
    IF resource.present THEN resource.classId ELSE Undefined

ResourceSubjectId(resource) ==
    IF resource.present THEN resource.subjectId ELSE Undefined

ResourceStudentId(resource) ==
    IF resource.present THEN resource.studentId ELSE Undefined

\* JavaScript truthiness of an optional id
Truthy(id) == id # Undefined

\* Mutant of SubjectIdsIncludes: every subject passes.
SubjectIdsIncludes_everySubject(user, subjectId) == TRUE

\* Mutant of SubjectIdsIncludes: any subject passes once the user carries a
\* subject list.
SubjectIdsIncludes_anySubject(user, subjectId) ==
    user.subjectIds # NoSubjectIds

\* user.subjectIds?.includes(subjectId)
SubjectIdsIncludes(user, subjectId) ==
    IF user.subjectIds = NoSubjectIds THEN FALSE
    ELSE subjectId \in user.subjectIds

----------------------------------------------------------------------------
(* interface AuthorizationResult, and the other outcomes of a call.        *)

\* The reason strings of the source, named by what they say.
SubjectInactive == "SubjectInactive"                        \* '비활성화된 사용자입니다.'
PermissionNotGrantedToRole == "PermissionNotGrantedToRole"  \* '해당 역할에 권한이 없습니다.'
NotOwnSubject == "NotOwnSubject"    \* '담당 과목의 성적만 관리할 수 있습니다.'
NotOwnStudent == "NotOwnStudent"    \* '담당 학생만 상담할 수 있습니다.'
NotOwnClassView == "NotOwnClass(view)"      \* '담당 반의 학생만 조회할 수 있습니다.'
NotOwnClassManage == "NotOwnClass(manage)"  \* '담임 반만 관리할 수 있습니다.'
UserNotFound == "UserNotFound"      \* '사용자를 찾을 수 없습니다.'
LoginRequired == "LoginRequired"    \* '로그인이 필요합니다.'
NoReason == "none"                  \* the reason field is absent

\* The two messages that say the resource is not the user's own class.
NotOwnClass == {NotOwnClassView, NotOwnClassManage}

\* { allowed: true }
Allow ==
    [kind |-> "decision", allowed |-> TRUE, reason |-> NoReason, items |-> {}]

\* { allowed: false, reason }
Deny(reason) ==
    [kind |-> "decision", allowed |-> FALSE, reason |-> reason, items |-> {}]

\* the call threw: a TypeError raised by the JavaScript runtime
Threw(error) ==
    [kind |-> "throw", allowed |-> FALSE, reason |-> error, items |-> {}]

\* a Permission[] value
PermissionArray(S) ==
    [kind |-> "array", allowed |-> FALSE, reason |-> NoReason, items |-> S]

\* a value an object inherits from Object.prototype (a function, not an array)
InheritedValue ==
    [kind |-> "function", allowed |-> FALSE, reason |-> NoReason, items |-> {}]

\* a boolean
Boolean(b) ==
    [kind |-> "boolean", allowed |-> b, reason |-> NoReason, items |-> {}]

NoResult ==
    [kind |-> "none", allowed |-> FALSE, reason |-> NoReason, items |-> {}]

----------------------------------------------------------------------------
(* The teaching-relationship lookups: private methods of the two        *)
(* engines, which answer true for every teacher, student and class.        *)

\* RoleBasedAccessControl.isTeachingStudent
RBAC_isTeachingStudent(teacher, studentId) == TRUE

\* RoleBasedAccessControl.isTeachingClass
RBAC_isTeachingClass(teacher, classId) == TRUE

\* RBACService.isTeachingStudent
RBACService_isTeachingStudent(teacher, studentId) == TRUE

\* Mutant of RBACService_isTeachingClass: the teacher teaches no class.
RBACService_isTeachingClass_never(teacher, classId) == FALSE

\* RBACService.isTeachingClass
RBACService_isTeachingClass(teacher, classId) == TRUE

----------------------------------------------------------------------------
(* The role -> permission tables.                                          *)

\* RoleBasedAccessControl.initializeRolePermissions
RBAC_initializeRolePermissions ==
    [ role \in TeacherRole |->
        IF role = HOMEROOM_TEACHER
        THEN { VIEW_STUDENTS, MANAGE_STUDENTS, EDIT_STUDENT_INFO,
               VIEW_GRADES, MANAGE_GRADES, EXPORT_GRADES,
               VIEW_ATTENDANCE, MANAGE_ATTENDANCE,
               VIEW_PARENT_INFO, CONTACT_PARENTS,
               MANAGE_CLASS, VIEW_CLASS_REPORTS,
               CONDUCT_COUNSELING, VIEW_COUNSELING_RECORDS }
        ELSE { VIEW_STUDENTS, VIEW_GRADES, MANAGE_GRADES,
               VIEW_ATTENDANCE, CONDUCT_COUNSELING } ]

\* RBACService.rolePermissions (the field initialiser)
RBACService_rolePermissions ==
    [ role \in TeacherRole |->
        IF role = HOMEROOM_TEACHER
        THEN { VIEW_STUDENTS, MANAGE_STUDENTS, EDIT_STUDENT_INFO,
               VIEW_GRADES, MANAGE_GRADES, EXPORT_GRADES,
               VIEW_ATTENDANCE, MANAGE_ATTENDANCE,
               VIEW_PARENT_INFO, CONTACT_PARENTS,
               MANAGE_CLASS, VIEW_CLASS_REPORTS,
               CONDUCT_COUNSELING, VIEW_COUNSELING_RECORDS }
        ELSE { VIEW_STUDENTS, VIEW_GRADES, MANAGE_GRADES,
               VIEW_ATTENDANCE, CONDUCT_COUNSELING } ]

\* table[key] || [] on a plain JavaScript object: an own key gives its
\* array; a key inherited from Object.prototype gives the inherited value,
\* which is truthy, so the || [] default is not taken; any other key gives
\* undefined and so the empty array.
TableLookup(table, key) ==
    IF key \in DOMAIN table THEN PermissionArray(table[key])
    ELSE IF key \in ObjectPrototypeKeys THEN InheritedValue
    ELSE PermissionArray({})

\* RoleBasedAccessControl.getRolePermissions
RBAC_getRolePermissions(table, role) == TableLookup(table, role)

\* RBACService.getRolePermissions
RBACService_getRolePermissions(table, role) == TableLookup(table, role)

----------------------------------------------------------------------------
(* class RoleBasedAccessControl (teacher-rbac-system.ts).                  *)

\* Mutant of RBAC_checkResourceAccess: the homeroom class rule is applied to
\* every permission of a homeroom teacher, not to the three it is defined for.
RBAC_checkResourceAccess_classRuleForAll(user, permission, resource) ==
    IF user.role = GENERAL_TEACHER /\ permission = MANAGE_GRADES
    THEN IF /\ Truthy(ResourceSubjectId(resource))
            /\ SubjectIdsIncludes(user, ResourceSubjectId(resource))
         THEN Allow
         ELSE Deny(NotOwnSubject)
    ELSE IF user.role = GENERAL_TEACHER /\ permission = CONDUCT_COUNSELING
    THEN IF /\ Truthy(ResourceStudentId(resource))
            /\ RBAC_isTeachingStudent(user, ResourceStudentId(resource))
         THEN Allow
         ELSE Deny(NotOwnStudent)
    ELSE IF /\ user.role = GENERAL_TEACHER
            /\ permission \in {VIEW_STUDENTS, VIEW_GRADES, VIEW_ATTENDANCE}
    THEN IF /\ Truthy(ResourceClassId(resource))
            /\ RBAC_isTeachingClass(user, ResourceClassId(resource))
         THEN Allow
         ELSE Deny(NotOwnClassView)
    ELSE IF user.role = HOMEROOM_TEACHER
    THEN IF /\ Truthy(ResourceClassId(resource))
            /\ user.classId = ResourceClassId(resource)
         THEN Allow
         ELSE Deny(NotOwnClassManage)
    ELSE Allow

\* RoleBasedAccessControl.checkResourceAccess
RBAC_checkResourceAccess(user, permission, resource) ==
    IF user.role = GENERAL_TEACHER /\ permission = MANAGE_GRADES
    THEN IF /\ Truthy(ResourceSubjectId(resource))
            /\ SubjectIdsIncludes(user, ResourceSubjectId(resource))
         THEN Allow
         ELSE Deny(NotOwnSubject)
    ELSE IF user.role = GENERAL_TEACHER /\ permission = CONDUCT_COUNSELING
    THEN IF /\ Truthy(ResourceStudentId(resource))
            /\ RBAC_isTeachingStudent(user, ResourceStudentId(resource))
         THEN Allow
         ELSE Deny(NotOwnStudent)
    ELSE IF /\ user.role = GENERAL_TEACHER
            /\ permission \in {VIEW_STUDENTS, VIEW_GRADES, VIEW_ATTENDANCE}
    THEN IF /\ Truthy(ResourceClassId(resource))
            /\ RBAC_isTeachingClass(user, ResourceClassId(resource))
         THEN Allow
         ELSE Deny(NotOwnClassView)
    ELSE IF /\ user.role = HOMEROOM_TEACHER
            /\ permission \in {MANAGE_CLASS, MANAGE_STUDENTS, EDIT_STUDENT_INFO}
    THEN IF /\ Truthy(ResourceClassId(resource))
            /\ user.classId = ResourceClassId(resource)
         THEN Allow
         ELSE Deny(NotOwnClassManage)
    ELSE Allow

\* Mutant of RBAC_checkPermission: the baseline role check runs before the
\* activation gate.
RBAC_checkPermission_baselineFirst(table, user, permission, resource) ==
    IF user.isNull THEN Threw("TypeError")
    ELSE LET permissions == RBAC_getRolePermissions(table, user.role) IN
         IF permissions.kind # "array" THEN Threw("TypeError")
         ELSE IF permission \notin permissions.items
         THEN Deny(PermissionNotGrantedToRole)
         ELSE IF ~user.isActive THEN Deny(SubjectInactive)
         ELSE RBAC_checkResourceAccess(user, permission, resource)

\* Mutant of RBAC_checkPermission: the engine decides about the record the
\* registry holds under the subject's id, not about the user it was passed.
RBAC_checkPermission_liveRecord(table, user, permission, resource) ==
    LET live == IF ~user.isNull /\ user.id \in DOMAIN users
                THEN users[user.id] ELSE user IN
    IF live.isNull THEN Threw("TypeError")
    ELSE IF ~live.isActive THEN Deny(SubjectInactive)
    ELSE LET permissions == RBAC_getRolePermissions(table, live.role) IN
         IF permissions.kind # "array" THEN Threw("TypeError")
         ELSE IF permission \notin permissions.items
         THEN Deny(PermissionNotGrantedToRole)
         ELSE RBAC_checkResourceAccess(live, permission, resource)

\* RoleBasedAccessControl.checkPermission.  Reading user.isActive of a null
\* user throws a TypeError, and so does rolePermissions.includes when the
\* table lookup gave an inherited value instead of an array.
RBAC_checkPermission(table, user, permission, resource) ==
    IF user.isNull THEN Threw("TypeError")
    ELSE IF ~user.isActive THEN Deny(SubjectInactive)
    ELSE LET permissions == RBAC_getRolePermissions(table, user.role) IN
         IF permissions.kind # "array" THEN Threw("TypeError")
         ELSE IF permission \notin permissions.items
         THEN Deny(PermissionNotGrantedToRole)
         ELSE RBAC_checkResourceAccess(user, permission, resource)

\* TeacherService.getUserById: this.users.get(id) || null
TeacherService_getUserById(registry, id) ==
    IF id \in DOMAIN registry THEN registry[id] ELSE NullUser

\* TeacherService.checkPermission
TeacherService_checkPermission(registry, table, userId, permission, resource) ==
    LET user == TeacherService_getUserById(registry, userId) IN
    IF user.isNull THEN Deny(UserNotFound)
    ELSE RBAC_checkPermission(table, user, permission, resource)

----------------------------------------------------------------------------
(* class RBACService and the AuthProvider (services/RBACService.ts).       *)

\* Mutant of RBACService_checkResourceAccess: the homeroom class rule is
\* applied to every permission of a homeroom teacher.
RBACService_checkResourceAccess_classRuleForAll(user, permission, resource) ==
    IF user.role = GENERAL_TEACHER /\ permission = MANAGE_GRADES
    THEN IF /\ Truthy(ResourceSubjectId(resource))
            /\ SubjectIdsIncludes(user, ResourceSubjectId(resource))
         THEN Allow
         ELSE Deny(NotOwnSubject)
    ELSE IF user.role = GENERAL_TEACHER /\ permission = CONDUCT_COUNSELING
    THEN IF /\ Truthy(ResourceStudentId(resource))
            /\ RBACService_isTeachingStudent(user, ResourceStudentId(resource))
         THEN Allow
         ELSE Deny(NotOwnStudent)
    ELSE IF user.role = HOMEROOM_TEACHER
    THEN IF /\ Truthy(ResourceClassId(resource))
            /\ user.classId # ResourceClassId(resource)
         THEN Deny(NotOwnClassManage)
         ELSE Allow
    ELSE Allow

\* RBACService.checkResourceAccess
RBACService_checkResourceAccess(user, permission, resource) ==
    IF user.role = GENERAL_TEACHER /\ permission = MANAGE_GRADES
    THEN IF /\ Truthy(ResourceSubjectId(resource))
            /\ SubjectIdsIncludes(user, ResourceSubjectId(resource))
         THEN Allow
         ELSE Deny(NotOwnSubject)
    ELSE IF user.role = GENERAL_TEACHER /\ permission = CONDUCT_COUNSELING
    THEN IF /\ Truthy(ResourceStudentId(resource))
            /\ RBACService_isTeachingStudent(user, ResourceStudentId(resource))
         THEN Allow
         ELSE Deny(NotOwnStudent)
    ELSE IF /\ user.role = GENERAL_TEACHER
            /\ permission \in {VIEW_STUDENTS, VIEW_GRADES, VIEW_ATTENDANCE}
    THEN IF /\ Truthy(ResourceClassId(resource))
            /\ RBACService_isTeachingClass(user, ResourceClassId(resource))
         THEN Allow
         ELSE Allow
    ELSE IF /\ user.role = HOMEROOM_TEACHER
            /\ permission \in {MANAGE_CLASS, MANAGE_STUDENTS, EDIT_STUDENT_INFO}
    THEN IF /\ Truthy(ResourceClassId(resource))
            /\ user.classId = ResourceClassId(resource)
         THEN Allow
         ELSE IF ~Truthy(ResourceClassId(resource))
         THEN Allow
         ELSE Deny(NotOwnClassManage)
    ELSE Allow

\* Mutant of RBACService_checkPermission: the baseline role check is left out.
RBACService_checkPermission_noBaseline(table, user, permission, resource) ==
    IF user.isNull THEN Threw("TypeError")
    ELSE IF ~user.isActive THEN Deny(SubjectInactive)
    ELSE RBACService_checkResourceAccess(user, permission, resource)

\* RBACService.checkPermission
RBACService_checkPermission(table, user, permission, resource) ==
    IF user.isNull THEN Threw("TypeError")
    ELSE IF ~user.isActive THEN Deny(SubjectInactive)
    ELSE LET permissions == RBACService_getRolePermissions(table, user.role) IN
         IF permissions.kind # "array" THEN Threw("TypeError")
         ELSE IF permission \notin permissions.items
         THEN Deny(PermissionNotGrantedToRole)
         ELSE RBACService_checkResourceAccess(user, permission, resource)

\* AuthProvider.checkPermission, for the session user of the provider
AuthProvider_checkPermission(table, user, permission, resource) ==
    IF user.isNull THEN Deny(LoginRequired)
    ELSE RBACService_checkPermission(table, user, permission, resource)

\* RBACService.canAccessScreen: the screenPermissions table
screenPermissions ==
    [ screenName \in { "Students", "StudentDetail", "AddStudent", "EditStudent",
                       "Grades", "AddGrade", "EditGrade", "Attendance",
                       "TakeAttendance" } |->
        CASE screenName \in {"Students", "StudentDetail"} -> {VIEW_STUDENTS}
          [] screenName = "AddStudent" -> {MANAGE_STUDENTS}
          [] screenName = "EditStudent" -> {EDIT_STUDENT_INFO}
          [] screenName = "Grades" -> {VIEW_GRADES}
          [] screenName \in {"AddGrade", "EditGrade"} -> {MANAGE_GRADES}
          [] screenName = "Attendance" -> {VIEW_ATTENDANCE}
          [] screenName = "TakeAttendance" -> {MANAGE_ATTENDANCE} ]

\* The screen names a caller passes: the mapped ones, a screen of the
\* application the table does not map, and a name every object inherits.
ScreenName == DOMAIN screenPermissions \cup {"Dashboard"} \cup ObjectPrototypeKeys

\* RBACService.canAccessScreen.  screenPermissions[screenName] of an
\* unmapped name is undefined and the screen is open; of an inherited name it
\* is a function, whose .some is not callable.  Every mapped array has one
\* element, so .some is one checkPermission call without a resource, and
\* what that call throws, canAccessScreen throws.
RBACService_canAccessScreen(table, user, screenName) ==
    IF screenName \in DOMAIN screenPermissions
    THEN LET checks == { RBACService_checkPermission(table, user,
                             permission, NoResource) :
                         permission \in screenPermissions[screenName] } IN
         IF \E r \in checks : r.kind = "throw" THEN Threw("TypeError")
         ELSE Boolean(\E r \in checks : r.allowed)
    ELSE IF screenName \in ObjectPrototypeKeys THEN Threw("TypeError")
    ELSE Boolean(TRUE)

----------------------------------------------------------------------------
(* The calls.                                                              *)

\* TeacherService.initializeSampleData: the registry after construction
TeacherService_initializeSampleData ==
    [ id \in {"teacher1", "teacher2"} |->
        IF id = "teacher1"
        THEN [ isNull |-> FALSE, id |-> "teacher1",
               email |-> "kim@school.edu", role |-> HOMEROOM_TEACHER,
               isActive |-> TRUE, classId |-> 1, subjectIds |-> NoSubjectIds ]
        ELSE [ isNull |-> FALSE, id |-> "teacher2",
               email |-> "lee@school.edu", role |-> GENERAL_TEACHER,
               isActive |-> TRUE, classId |-> Undefined, subjectIds |-> {1, 2} ] ]

\* AuthService.sampleUsers (services/RBACService.ts): the users a login of
\* the AuthProvider can make the session user
AuthService_sampleUsers ==
    { [ isNull |-> FALSE, id |-> "teacher1",
        email |-> "homeroom@school.edu", role |-> HOMEROOM_TEACHER,
        isActive |-> TRUE, classId |-> 1, subjectIds |-> NoSubjectIds ],
      [ isNull |-> FALSE, id |-> "teacher2",
        email |-> "general@school.edu", role |-> GENERAL_TEACHER,
        isActive |-> TRUE, classId |-> Undefined, subjectIds |-> {1, 2} ],
      [ isNull |-> FALSE, id |-> "teacher3",
        email |-> "math@school.edu", role |-> GENERAL_TEACHER,
        isActive |-> TRUE, classId |-> Undefined, subjectIds |-> {1} ] }

\* The user ids a caller passes to TeacherService: registered or not
UserId == {"teacher1", "teacher2", "nobody"}

ResourceArg == Resource \cup {NoResource}

\* A call: the operation and its arguments (an argument the operation does
\* not take holds a fixed filler).
Call(op, user, userId, permission, resource, role, screenName) ==
    [ op |-> op, user |-> user, userId |-> userId, permission |-> permission,
      resource |-> resource, role |-> role, screenName |-> screenName ]

\* Each Made... says that the call made is one of an operation, with
\* arguments drawn from the argument sets.
MadeEngineCall ==
    \E op \in {"RoleBasedAccessControl.checkPermission",
               "RBACService.checkPermission"},
       user \in User \cup {NullUser},
       permission \in Permission,
       resource \in ResourceArg :
        call = Call(op, user, "none", permission, resource, "none", "none")

MadeTeacherServiceCall ==
    \E userId \in UserId, permission \in Permission, resource \in ResourceArg :
        call = Call("TeacherService.checkPermission", NullUser, userId,
                    permission, resource, "none", "none")

MadeAuthProviderCall ==
    \E user \in AuthService_sampleUsers \cup {NullUser},
       permission \in Permission,
       resource \in ResourceArg :
        call = Call("AuthProvider.checkPermission", user, "none", permission,
                    resource, "none", "none")

MadeCheckPermissionCall ==
    MadeEngineCall \/ MadeTeacherServiceCall \/ MadeAuthProviderCall

MadeGetRolePermissionsCall ==
    \E role \in RoleValues :
        call = Call("RoleBasedAccessControl.getRolePermissions", NullUser,
                    "none", VIEW_STUDENTS, NoResource, role, "none")

MadeCanAccessScreenCall ==
    \E user \in User \cup {NullUser}, screenName \in ScreenName :
        call = Call("RBACService.canAccessScreen", user, "none", VIEW_STUDENTS,
                    NoResource, "none", screenName)

MadeCall ==
    MadeCheckPermissionCall \/ MadeGetRolePermissionsCall \/ MadeCanAccessScreenCall

----------------------------------------------------------------------------
(* The school management system: registry, session, guards and services.   *)

MaxCreated == 1     \* how many users createUser adds to the sample users
MaxAdded == 1       \* how many students addStudent adds to the sample students

\* AuthService.currentUser = null.  A current user is held as the registry
\* key of the user object: login stores the registry's own object, so what
\* updateUserRole writes to that object the session sees.
NoUser == "null"

\* The emails a caller passes to login: of the sample users, of created
\* users, and one of nobody.
KimEmail == "kim@school.edu"
LeeEmail == "lee@school.edu"
NewEmail == "new@school.edu"
UnknownEmail == "nobody@school.edu"
Email == {KimEmail, LeeEmail, NewEmail, UnknownEmail}

\* `teacher_${Date.now()}`: the id of the user created at clock value now
CreatedUserId(now) == "teacher_" \o ToString(now)

\* The order in which Map.values() visits the registry: insertion order,
\* the sample users first, then the created users as they were created.
InsertionOrder ==
    <<"teacher1", "teacher2">> \o [now \in 1..(MaxCreated + 1) |-> CreatedUserId(now)]

\* The email of a created user: createUser stores whatever email it is
\* given, one no user has yet or one a user already has.
CreatedEmail == {NewEmail, KimEmail}

\* The userData argument of createUser (Omit<User, 'id' | 'createdAt'>):
\* either role, active or not, with the ownership attributes of a homeroom
\* teacher (a class) or of a general teacher (a subject list).
UserData ==
    { [ isNull |-> FALSE, id |-> "none", email |-> email, role |-> role,
        isActive |-> isActive, classId |-> owns.classId,
        subjectIds |-> owns.subjectIds ] :
      email \in CreatedEmail, role \in TeacherRole, isActive \in BOOLEAN,
      owns \in { [classId |-> 1, subjectIds |-> NoSubjectIds],
                 [classId |-> Undefined, subjectIds |-> {1}] } }

\* The additionalData argument of updateUserRole (Partial<User>): omitted,
\* or an object with some of isActive, classId, subjectIds.  has... says
\* that the key is there.
NoAdditionalData ==
    [ present |-> FALSE, hasIsActive |-> FALSE, isActive |-> FALSE,
      hasClassId |-> FALSE, classId |-> Undefined,
      hasSubjectIds |-> FALSE, subjectIds |-> NoSubjectIds ]

IsActiveData(isActive) ==
    [NoAdditionalData EXCEPT !.present = TRUE, !.hasIsActive = TRUE,
                             !.isActive = isActive]

ClassIdData(classId) ==
    [NoAdditionalData EXCEPT !.present = TRUE, !.hasClassId = TRUE,
                             !.classId = classId]

SubjectIdsData(subjectIds) ==
    [NoAdditionalData EXCEPT !.present = TRUE, !.hasSubjectIds = TRUE,
                             !.subjectIds = subjectIds]

\* TeacherService.createUser: the registry after the call made at clock
\* value now.  Map.set replaces an entry that has the same id.
TeacherService_createUser(registry, userData, now) ==
    [ id \in DOMAIN registry \cup {CreatedUserId(now)} |->
        IF id = CreatedUserId(now)
        THEN [userData EXCEPT !.id = CreatedUserId(now)]
        ELSE registry[id] ]

\* Object.assign(user, additionalData)
ObjectAssign(user, additionalData) ==
    [user EXCEPT
        !.isActive = IF additionalData.hasIsActive
                     THEN additionalData.isActive ELSE @,
        !.classId = IF additionalData.hasClassId
                    THEN additionalData.classId ELSE @,
        !.subjectIds = IF additionalData.hasSubjectIds
                       THEN additionalData.subjectIds ELSE @ ]

\* TeacherService.updateUserRole: what it returns and the registry after.
\* The user object is changed in place.
TeacherService_updateUserRole(registry, userId, newRole, additionalData) ==
    IF userId \notin DOMAIN registry
    THEN [value |-> Boolean(FALSE), users |-> registry]
    ELSE [ value |-> Boolean(TRUE),
           users |-> [registry EXCEPT ![userId] =
                        IF additionalData.present
                        THEN ObjectAssign([@ EXCEPT !.role = newRole],
                                          additionalData)
                        ELSE [@ EXCEPT !.role = newRole]] ]

\* TeacherService.getUserByEmail: the registry key of the first user, in
\* insertion order, that has the email; NoUser when none has.
TeacherService_getUserByEmail(registry, email) ==
    LET found == { i \in DOMAIN InsertionOrder :
                     /\ InsertionOrder[i] \in DOMAIN registry
                     /\ registry[InsertionOrder[i]].email = email } IN
    IF found = {} THEN NoUser
    ELSE InsertionOrder[CHOOSE i \in found : \A j \in found : i <= j]

\* a User object returned by reference: the registry key it is stored under
ReturnedUser(id) ==
    [kind |-> "user", allowed |-> FALSE, reason |-> id, items |-> {}]

\* null
Null ==
    [kind |-> "null", allowed |-> FALSE, reason |-> NoReason, items |-> {}]

\* Mutant of AuthService_login: a login that fails ends the session.
AuthService_login_endsSessionOnFailure(registry, session, email) ==
    LET user == TeacherService_getUserByEmail(registry, email) IN
    IF user # NoUser /\ registry[user].isActive
    THEN [value |-> ReturnedUser(user), currentUser |-> user]
    ELSE [value |-> Null, currentUser |-> NoUser]

\* AuthService.login: what the promise resolves to and the session after
AuthService_login(registry, session, email) ==
    LET user == TeacherService_getUserByEmail(registry, email) IN
    IF user # NoUser /\ registry[user].isActive
    THEN [value |-> ReturnedUser(user), currentUser |-> user]
    ELSE [value |-> Null, currentUser |-> session]

\* AuthService.getCurrentUser
AuthService_getCurrentUser(registry, session) ==
    IF session = NoUser THEN NullUser ELSE registry[session]

\* Mutant of AuthService_isAuthenticated: a session is enough, the user's
\* activation is not looked at.
AuthService_isAuthenticated_sessionOnly(registry, session) ==
    session # NoUser

\* AuthService.isAuthenticated
AuthService_isAuthenticated(registry, session) ==
    session # NoUser /\ registry[session].isActive

\* The errors the guards throw.
AuthenticationRequired == "AuthenticationRequired"  \* '인증이 필요합니다.'
RoleRequired == "RoleRequired"      \* `접근 거부: ${role} 권한이 필요합니다.`

\* new Error(`접근 거부: ${reason}`)
AccessDenied(reason) ==
    [ kind |-> "throw", allowed |-> FALSE, reason |-> reason,
      items |-> {"AccessDenied"} ]

\* What a service method does: the value it returns or the error it throws,
\* and the service's store after.
Outcome(value, store) == [value |-> value, store |-> store]

\* Mutant of RequirePermission: a logged-in, active user runs the method
\* whatever checkPermission decided.
RequirePermission_unchecked(registry, table, session, permission, args0, store, original) ==
    IF ~AuthService_isAuthenticated(registry, session)
    THEN Outcome(Threw(AuthenticationRequired), store)
    ELSE original

\* The method wrapped by @RequirePermission(permission): original is what
\* the method itself does, args0 its first argument.
RequirePermission(registry, table, session, permission, args0, store, original) ==
    IF ~AuthService_isAuthenticated(registry, session)
    THEN Outcome(Threw(AuthenticationRequired), store)
    ELSE LET currentUserObject == AuthService_getCurrentUser(registry, session)
             authResult == TeacherService_checkPermission(registry, table,
                               currentUserObject.id, permission, args0)
         IN  IF authResult.kind = "throw" THEN Outcome(authResult, store)
             ELSE IF ~authResult.allowed
             THEN Outcome(AccessDenied(authResult.reason), store)
             ELSE original

\* The method wrapped by @RequireRole(role).
RequireRole(registry, session, role, store, original) ==
    IF ~AuthService_isAuthenticated(registry, session)
    THEN Outcome(Threw(AuthenticationRequired), store)
    ELSE IF AuthService_getCurrentUser(registry, session).role # role
    THEN Outcome(AccessDenied(RoleRequired), store)
    ELSE original

\* interface Student, as far as the services read it.
SampleContact == "010-1234-5678"      \* of 'student1'
SampleContact2 == "010-2345-6789"     \* of 'student2'
UpdatedContact == "010-9999-9999"

Student(classId, parentContact) ==
    [classId |-> classId, parentContact |-> parentContact]

\* StudentService.initializeSampleData: student1 and student2, both of
\* 'class-3-1', each with the parent contact of its own.  Student ids are numbers: 1 is 'student1', 2 is 'student2',
\* and 2 + now is `student_${Date.now()}` of the student added at clock
\* value now.
StudentService_initializeSampleData ==
    [id \in {1, 2} |->
        Student(1, IF id = 1 THEN SampleContact ELSE SampleContact2)]

AddedStudentId(now) == 2 + now

\* A first argument that is a string (a student id, a class id): an object
\* for the optional chaining of the engine, with none of the three ids.
StringArgument ==
    [ present |-> TRUE, classId |-> Undefined, subjectId |-> Undefined,
      studentId |-> Undefined ]

\* a Student[] value: the ids of the students in it
StudentArray(S) ==
    [kind |-> "students", allowed |-> FALSE, reason |-> NoReason, items |-> S]

\* an empty any[] value
EmptyArray ==
    [kind |-> "any[]", allowed |-> FALSE, reason |-> NoReason, items |-> {}]

\* a string value
ReturnedString ==
    [kind |-> "string", allowed |-> FALSE, reason |-> NoReason, items |-> {}]

\* Mutant of StudentService_getStudents: the filter alone selects the
\* students, the homeroom teacher's own class does not.
StudentService_getStudents_filterOnly(registry, session, store, filter) ==
    LET all == DOMAIN store
        filtered == IF Truthy(ResourceClassId(filter))
                    THEN {id \in all : store[id].classId = filter.classId}
                    ELSE all
    IN  Outcome(StudentArray(filtered), store)

\* StudentService.getStudents (the method itself)
StudentService_getStudents(registry, session, store, filter) ==
    LET user == AuthService_getCurrentUser(registry, session)
        all == DOMAIN store
        own == IF user.role = HOMEROOM_TEACHER /\ Truthy(user.classId)
               THEN {id \in all : store[id].classId = user.classId}
               ELSE all
        filtered == IF Truthy(ResourceClassId(filter))
                    THEN {id \in own : store[id].classId = filter.classId}
                    ELSE own
    IN  Outcome(StudentArray(filtered), store)

\* The updateData argument of updateStudent (Partial<Student>): a new parent
\* contact (a classId key would move the student to that class).
UpdateData == { [classId |-> Undefined, parentContact |-> UpdatedContact] }

\* StudentService.updateStudent (the method itself)
StudentService_updateStudent(store, studentId, updateData) ==
    IF studentId \notin DOMAIN store THEN Outcome(Boolean(FALSE), store)
    ELSE Outcome(Boolean(TRUE),
             [store EXCEPT ![studentId] =
                 Student(IF Truthy(updateData.classId)
                         THEN updateData.classId ELSE @.classId,
                         IF updateData.parentContact # "keep"
                         THEN updateData.parentContact ELSE @.parentContact)])

\* StudentService.addStudent (the method itself): the student stored is
\* studentData under a new id; the student returned is named by its id
StudentService_addStudent(store, studentData, now) ==
    Outcome(StudentArray({AddedStudentId(now)}),
            [ id \in DOMAIN store \cup {AddedStudentId(now)} |->
                IF id = AddedStudentId(now)
                THEN Student(studentData.classId, studentData.parentContact)
                ELSE store[id] ])

\* GradeService.getGrades (the method itself)
GradeService_getGrades(store, filter) == Outcome(EmptyArray, store)

Score == 95

\* `${gradeData.studentId}_${gradeData.subjectId}`
GradeId(gradeData) == <<gradeData.studentId, gradeData.subjectId>>

\* GradeService.updateGrade (the method itself)
GradeService_updateGrade(registry, session, store, gradeData) ==
    LET user == AuthService_getCurrentUser(registry, session) IN
    IF /\ user.role = GENERAL_TEACHER
       /\ ~SubjectIdsIncludes(user, gradeData.subjectId)
    THEN Outcome(Threw(NotOwnSubject), store)
    ELSE Outcome(Boolean(TRUE),
             [ id \in DOMAIN store \cup {GradeId(gradeData)} |->
                 IF id = GradeId(gradeData)
                 THEN [ studentId |-> gradeData.studentId,
                        subjectId |-> gradeData.subjectId, score |-> Score ]
                 ELSE store[id] ])

\* GradeService.exportGrades (the method itself)
GradeService_exportGrades(store, classId) == Outcome(ReturnedString, store)

\* AttendanceService.getAttendance (the method itself)
AttendanceService_getAttendance(store, filter) == Outcome(EmptyArray, store)

\* `${attendanceData.studentId}_${attendanceData.date.toISOString()}`; the
\* calls are all about one day
RecordId(attendanceData) == <<attendanceData.studentId, "date">>

\* AttendanceService.updateAttendance (the method itself)
AttendanceService_updateAttendance(store, attendanceData) ==
    Outcome(Boolean(TRUE),
        [ id \in DOMAIN store \cup {RecordId(attendanceData)} |->
            IF id = RecordId(attendanceData)
            THEN [studentId |-> attendanceData.studentId, status |-> "present"]
            ELSE store[id] ])

\* new Map(): a store with nothing in it
EmptyMap == <<>>

\* A decision of checkPermission kept for comparison with later ones: the
\* engine that decided, the subject, permission and resource it was about,
\* what was decided, and whether the registry or the session has been
\* written since.
Noted(engine, subject, permission, resource, decision) ==
    [ engine |-> engine, subject |-> subject, permission |-> permission,
      resource |-> resource, decision |-> decision, writtenSince |-> FALSE ]

Nothing == Noted("none", NullUser, VIEW_STUDENTS, NoResource, NoResult)

\* The class whose checkPermission decides a call of the entry point.
EngineOf(op) ==
    IF op \in {"RoleBasedAccessControl.checkPermission",
               "TeacherService.checkPermission"}
    THEN "RoleBasedAccessControl" ELSE "RBACService"

\* The kept decision after a call that wrote the registry or the session.
Written(kept) ==
    IF kept = Nothing THEN kept ELSE [kept EXCEPT !.writtenSince = TRUE]

----------------------------------------------------------------------------
(* The AuthProvider (services/RBACService.ts): the session user of the     *)
(* React context, the 'user' item of AsyncStorage, and the asynchronous    *)
(* login, logout and checkStoredAuth functions.  Each function runs up to  *)
(* its next await in one step; between the steps of one call the steps of  *)
(* the other calls may run.  How long a timer or a storage operation takes *)
(* is not modelled: a step that waits for one may run at any later time.   *)

MaxLogins == 2      \* how many login() calls are in flight at a time

\* useState<User | null>(null): no session user
NoSessionUser == [id |-> "null", createdAt |-> "null"]

\* A user object of AuthService.sampleUsers: createdAt is a Date.
SampleUser(id) == [id |-> id, createdAt |-> "Date"]

\* AsyncStorage has no 'user' item.
NoItem == "null"

\* JSON.stringify(userData): the text of the user; createdAt is written as
\* an ISO string.
JSON_stringify(userData) == userData.id

\* JSON.parse(storedUser): the object the text describes; its createdAt is
\* a string, not a Date.
JSON_parse(storedUser) == [id |-> storedUser, createdAt |-> "string"]

\* The emails passed to login: of two sample users, and of nobody.
HomeroomEmail == "homeroom@school.edu"
GeneralEmail == "general@school.edu"
LoginEmail == {HomeroomEmail, GeneralEmail, UnknownEmail}

\* AuthService.login (services): sampleUsers.find(u => u.email === email),
\* or null
AuthService_find(email) ==
    IF \E u \in AuthService_sampleUsers : u.email = email
    THEN SampleUser((CHOOSE u \in AuthService_sampleUsers : u.email = email).id)
    ELSE NoSessionUser

\* A login() call that is not running.
NoLogin == [pc |-> "idle", email |-> "none", userData |-> NoSessionUser]

\* The provider at its first render, with the given 'user' item in storage:
\* user is null, isLoading is true, checkStoredAuth is about to run, no
\* login or logout is running.  loggedOut says that a logout() has completed
\* and no login() has been started since.
AuthProvider_mounted(item) ==
    [ user |-> NoSessionUser,
      isLoading |-> TRUE,
      item |-> item,
      mount |-> [pc |-> "getItem", storedUser |-> NoItem],
      login |-> [i \in 1..MaxLogins |-> NoLogin],
      logout |-> "idle",
      loggedOut |-> FALSE ]

\* No provider is rendered: the school management system and the quiz run
\* without the React context.
NoProvider == "none"

\* isAuthenticated: !!user
AuthProvider_isAuthenticated(p) == p.user # NoSessionUser

\* checkStoredAuth: AsyncStorage.getItem('user') reads the item
AuthProvider_checkStoredAuth_getItem(p) ==
    [p EXCEPT !.mount = [pc |-> "parse", storedUser |-> p.item]]

\* checkStoredAuth after the await: setUser(JSON.parse(storedUser)) if there
\* was an item; finally setIsLoading(false)
AuthProvider_checkStoredAuth_setUser(p) ==
    [p EXCEPT !.user = IF p.mount.storedUser # NoItem
                       THEN JSON_parse(p.mount.storedUser)
                       ELSE @,
              !.isLoading = FALSE,
              !.mount.pc = "done"]

\* login up to await authService.login(email, password)
AuthProvider_login_call(p, i, email) ==
    [p EXCEPT !.isLoading = TRUE,
              !.login[i] = [pc |-> "lookup", email |-> email,
                            userData |-> NoSessionUser],
              !.loggedOut = FALSE]

\* login after the lookup has resolved: with a user, setUser(userData) and
\* up to await AsyncStorage.setItem; with null, return false and finally
\* setIsLoading(false)
AuthProvider_login_lookup(p, i) ==
    LET userData == AuthService_find(p.login[i].email) IN
    IF userData # NoSessionUser
    THEN [p EXCEPT !.user = userData,
                   !.login[i].pc = "setItem",
                   !.login[i].userData = userData]
    ELSE [p EXCEPT !.isLoading = FALSE, !.login[i] = NoLogin]

\* login after setItem has written the item: return true and finally
\* setIsLoading(false)
AuthProvider_login_setItem(p, i) ==
    [p EXCEPT !.item = JSON_stringify(p.login[i].userData),
              !.isLoading = FALSE,
              !.login[i] = NoLogin]

\* logout up to await AsyncStorage.removeItem('user'): setUser(null)
AuthProvider_logout_call(p) ==
    [p EXCEPT !.user = NoSessionUser, !.logout = "removeItem"]

\* logout after removeItem has removed the item, up to await
\* authService.logout()
AuthProvider_logout_removeItem(p) ==
    [p EXCEPT !.item = NoItem, !.logout = "authLogout"]

\* logout after authService.logout() has resolved: logout() has completed
AuthProvider_logout_resolved(p) ==
    [p EXCEPT !.logout = "idle", !.loggedOut = TRUE]

----------------------------------------------------------------------------
(* The quiz (app.js): the question on display, the recorded answers and    *)
(* the 500 ms timers that advance to the next question.  A click runs      *)
(* selectAnswer to its end in one step, a timer runs its callback to its   *)
(* end in one step and so does a call of showScreen; they come in any      *)
(* order, on any screen.                                                   *)

NumQuestions == 4   \* TEST_QUESTIONS.length
MaxTimers == 2      \* how many advance timers are pending at a time
MaxTests == 2       \* how many times the test is started

\* The ids of the screens of the page.
ScreenId ==
    { "main-menu", "test-screen", "result-screen", "students-screen",
      "info-screen" }

\* The indexes of TEST_QUESTIONS.
QuestionIndex == 0..(NumQuestions - 1)

\* The dimensions calculateResult knows, in the order it scores them.
Dimension == {"EI", "SN", "TF", "JP"}

\* TEST_QUESTIONS is data loaded with the page: a list of NumQuestions
\* questions, each with one of the dimensions, the questions of a dimension
\* standing together and the dimensions in the order of calculateResult
\* (one question for each, all four for one, and what lies between).  Its
\* texts are not modelled.
TestQuestions ==
    LET order == <<"EI", "SN", "TF", "JP">> IN
    { [index \in QuestionIndex |-> [dimension |-> order[at[index]]]] :
        at \in { f \in [QuestionIndex -> DOMAIN order] :
                   \A i, j \in QuestionIndex : i <= j => f[i] <= f[j] } }

Option == {"A", "B"}

\* answers[dimension][index] of an index nothing was recorded for
NoAnswer == "undefined"

\* window.currentMBTIResult before a result was computed
NoMBTIResult == "undefined"

\* The page after DOMContentLoaded, with the given TEST_QUESTIONS:
\* showScreen('main-menu').  answers[index] stands for
\* answers[TEST_QUESTIONS[index].dimension][index].  timers counts the
\* advance timers that are set and have not fired.  displayed is the set of
\* question indexes displayQuestion has put on the page since the page was
\* loaded, calculated counts the runs of calculateResult and started those
\* of startTest; no code reads them.
Quiz_loaded(questions) ==
    [ TEST_QUESTIONS |-> questions,
      currentScreen |-> "main-menu",
      currentQuestion |-> 0,
      answers |-> [index \in QuestionIndex |-> NoAnswer],
      timers |-> 0,
      currentMBTIResult |-> NoMBTIResult,
      displayed |-> {},
      calculated |-> 0,
      started |-> 0 ]

\* No page is loaded: the school management system and the AuthProvider run
\* without the quiz.
NoPage == "none"

\* calculateResult: the score of a dimension's option, and the letter
\* chosen, scores.first > scores.second ? first : second
Quiz_score(q, dimension, option) ==
    Cardinality({ index \in QuestionIndex :
                    /\ q.TEST_QUESTIONS[index].dimension = dimension
                    /\ q.answers[index] = option })

Quiz_letter(q, dimension, first, second) ==
    IF Quiz_score(q, dimension, "A") > Quiz_score(q, dimension, "B")
    THEN first ELSE second

\* calculateResult: the mbtiType string
Quiz_mbtiType(q) ==
    Quiz_letter(q, "EI", "E", "I") \o Quiz_letter(q, "SN", "S", "N")
    \o Quiz_letter(q, "TF", "T", "F") \o Quiz_letter(q, "JP", "J", "P")

\* calculateResult and displayResult: the result is computed, kept in
\* window.currentMBTIResult, and showScreen('result-screen') makes the
\* result screen the current one
Quiz_calculateResult(q) ==
    [q EXCEPT !.currentMBTIResult = Quiz_mbtiType(q),
              !.currentScreen = "result-screen",
              !.calculated = @ + 1]

\* displayQuestion: past the last question the result is calculated,
\* otherwise the current question is put on the page
Quiz_displayQuestion(q) ==
    IF q.currentQuestion >= NumQuestions
    THEN Quiz_calculateResult(q)
    ELSE [q EXCEPT !.displayed = @ \cup {q.currentQuestion}]

\* startTest: the first question again, no answers; the timers that are
\* pending stay pending
Quiz_startTest(q) ==
    Quiz_displayQuestion([q EXCEPT !.currentQuestion = 0,
                                   !.answers = [index \in QuestionIndex |-> NoAnswer],
                                   !.started = @ + 1])

\* showScreen(screenId): the screen becomes the current one, and the test
\* screen starts the test.  displayStudents and displayMBTIInfo of the other
\* two screens write the page only.
Quiz_showScreen(q, screenId) ==
    IF screenId = "test-screen"
    THEN Quiz_startTest([q EXCEPT !.currentScreen = screenId])
    ELSE [q EXCEPT !.currentScreen = screenId]

\* selectAnswer(option): the answer is recorded for the current question and
\* an advance timer is set; with no current question, question.dimension
\* throws and nothing is written
Quiz_selectAnswer(q, option) ==
    IF q.currentQuestion \notin QuestionIndex THEN q
    ELSE [q EXCEPT !.answers[q.currentQuestion] = option,
                   !.timers = @ + 1]

\* The callback of an advance timer: currentQuestion++; displayQuestion()
Quiz_advance(q) ==
    Quiz_displayQuestion([q EXCEPT !.currentQuestion = @ + 1,
                                   !.timers = @ - 1])

----------------------------------------------------------------------------
(* The state machine.                                                      *)

\* The state after construction of the services, and with one call made.
SchoolManagementSystem_constructor ==
    /\ rolePermissions =
          [ RoleBasedAccessControl |-> RBAC_initializeRolePermissions,
            RBACService |-> RBACService_rolePermissions ]
    /\ users = TeacherService_initializeSampleData
    /\ currentUser = NoUser
    /\ students = StudentService_initializeSampleData
    /\ grades = EmptyMap
    /\ attendanceRecords = EmptyMap

Constructed ==
    /\ SchoolManagementSystem_constructor
    /\ provider = NoProvider
    /\ quiz = NoPage
    /\ noted = Nothing
    /\ pc = "called"
    /\ result = NoResult

Init ==
    /\ Constructed
    /\ MadeCall

Return(value) ==
    /\ result' = value
    /\ pc' = "returned"
    /\ UNCHANGED <<provider, quiz, rolePermissions, users, currentUser, students,
                   grades, attendanceRecords, noted, call>>

RBAC_CheckPermission ==
    /\ pc = "called"
    /\ call.op = "RoleBasedAccessControl.checkPermission"
    /\ Return(RBAC_checkPermission(rolePermissions.RoleBasedAccessControl,
                  call.user, call.permission, call.resource))

RBACService_CheckPermission ==
    /\ pc = "called"
    /\ call.op = "RBACService.checkPermission"
    /\ Return(RBACService_checkPermission(rolePermissions.RBACService,
                  call.user, call.permission, call.resource))

TeacherService_CheckPermission ==
    /\ pc = "called"
    /\ call.op = "TeacherService.checkPermission"
    /\ Return(TeacherService_checkPermission(users,
                  rolePermissions.RoleBasedAccessControl,
                  call.userId, call.permission, call.resource))

AuthProvider_CheckPermission ==
    /\ pc = "called"
    /\ call.op = "AuthProvider.checkPermission"
    /\ Return(AuthProvider_checkPermission(rolePermissions.RBACService,
                  call.user, call.permission, call.resource))

RBAC_GetRolePermissions ==
    /\ pc = "called"
    /\ call.op = "RoleBasedAccessControl.getRolePermissions"
    /\ Return(RBAC_getRolePermissions(rolePermissions.RoleBasedAccessControl,
                  call.role))

RBACService_CanAccessScreen ==
    /\ pc = "called"
    /\ call.op = "RBACService.canAccessScreen"
    /\ Return(RBACService_canAccessScreen(rolePermissions.RBACService,
                  call.user, call.screenName))

Next ==
    \/ RBAC_CheckPermission
    \/ RBACService_CheckPermission
    \/ TeacherService_CheckPermission
    \/ AuthProvider_CheckPermission
    \/ RBAC_GetRolePermissions
    \/ RBACService_CanAccessScreen

Spec == Init /\ [][Next]_vars

----------------------------------------------------------------------------
(* The school management system as a state machine: every step is one call *)
(* of a method of TeacherService, AuthService or a guarded service, made   *)
(* after the previous call has returned or thrown.                         *)

NoCall ==
    Call("none", NullUser, "none", VIEW_STUDENTS, NoResource, "none", "none")

\* new SchoolManagementSystem(), no method called yet
InitSystem ==
    /\ SchoolManagementSystem_constructor
    /\ provider = NoProvider
    /\ quiz = NoPage
    /\ noted = Nothing
    /\ call = NoCall
    /\ pc = "idle"
    /\ result = NoResult

Ready == pc \in {"idle", "returned"}

\* The call made by the step and what it returned or threw.
Returned(op, userId, permission, resource, role, value) ==
    /\ call' = Call(op, NullUser, userId, permission, resource, role, "none")
    /\ result' = value
    /\ pc' = "returned"

\* The filter argument of the get... methods: omitted, or a class filter.
ClassFilter(classId) ==
    [ present |-> TRUE, classId |-> classId, subjectId |-> Undefined,
      studentId |-> Undefined ]

FilterArg == {NoResource} \cup {ClassFilter(classId) : classId \in ClassId}

\* The filter argument of the grade and attendance methods, which look at
\* no class of their own: omitted, or the filter of the first class.
RecordFilterArg == {NoResource, ClassFilter(1)}

\* gradeData { studentId, subjectId, score }
GradeData(studentId, subjectId) ==
    [ present |-> TRUE, classId |-> Undefined, subjectId |-> subjectId,
      studentId |-> studentId ]

\* attendanceData { studentId, date, status }, and a student named by id
StudentData(studentId) ==
    [ present |-> TRUE, classId |-> Undefined, subjectId |-> Undefined,
      studentId |-> studentId ]

\* The (newRole, additionalData) arguments passed to updateUserRole for a
\* user.  An administrator of roles gives either role, alone or with an
\* activation or a deactivation.
RoleChanges(user) ==
    TeacherRole
        \X {NoAdditionalData, IsActiveData(FALSE), IsActiveData(TRUE)}

\* An administrator of accounts keeps the user's role and activates or
\* deactivates the user.
Activations(user) ==
    {user.role} \X {IsActiveData(FALSE), IsActiveData(TRUE)}

\* An administrator of assignments keeps the user's role, and deactivates
\* the user, gives a homeroom teacher a class or a general teacher a
\* subject list.
Assignments(user) ==
    {user.role}
        \X ({IsActiveData(FALSE)}
              \cup IF user.role = HOMEROOM_TEACHER
                   THEN {ClassIdData(classId) : classId \in ClassId}
                   ELSE {SubjectIdsData({1}), SubjectIdsData({1, 2})})

AuthService_Login ==
    /\ Ready
    /\ \E email \in Email :
        LET login == AuthService_login(users, currentUser, email) IN
        /\ currentUser' = login.currentUser
        /\ Returned("AuthService.login", email, VIEW_STUDENTS, NoResource,
                    "none", login.value)
    /\ noted' = IF currentUser' # currentUser THEN Written(noted) ELSE noted
    /\ UNCHANGED <<provider, quiz, rolePermissions, users, students, grades,
                   attendanceRecords>>

AuthService_Logout ==
    /\ Ready
    /\ currentUser' = NoUser
    /\ Returned("AuthService.logout", "none", VIEW_STUDENTS, NoResource,
                "none", NoResult)
    /\ noted' = IF currentUser' # currentUser THEN Written(noted) ELSE noted
    /\ UNCHANGED <<provider, quiz, rolePermissions, users, students, grades,
                   attendanceRecords>>

AuthService_IsAuthenticated ==
    /\ Ready
    /\ Returned("AuthService.isAuthenticated", "none", VIEW_STUDENTS,
                NoResource, "none",
                Boolean(AuthService_isAuthenticated(users, currentUser)))
    /\ UNCHANGED <<provider, quiz, rolePermissions, users, currentUser, students,
                   grades, attendanceRecords, noted>>

\* Date.now() of the k-th createUser call is k: no two calls are made in
\* the same millisecond.
TeacherService_CreateUser ==
    /\ Ready
    /\ Cardinality(DOMAIN users) < 2 + MaxCreated
    /\ \E userData \in UserData :
        LET now == Cardinality(DOMAIN users) - 1 IN
        /\ users' = TeacherService_createUser(users, userData, now)
        /\ call' = Call("TeacherService.createUser", userData, "none",
                        VIEW_STUDENTS, NoResource, "none", "none")
        /\ result' = ReturnedUser(CreatedUserId(now))
        /\ pc' = "returned"
    /\ noted' = Written(noted)
    /\ UNCHANGED <<provider, quiz, rolePermissions, currentUser, students, grades,
                   attendanceRecords>>

\* The arguments a caller of updateUserRole chooses from, by the name of
\* the menu.
Arguments(menu, user) ==
    CASE menu = "RoleChanges" -> RoleChanges(user)
      [] menu = "Activations" -> Activations(user)
      [] menu = "Assignments" -> Assignments(user)

TeacherService_UpdateUserRole(menu) ==
    /\ Ready
    /\ \E userId \in DOMAIN users \cup {"nobody"} :
       \E arguments \in Arguments(menu,
                                  TeacherService_getUserById(users, userId)) :
        LET newRole == arguments[1]
            additionalData == arguments[2]
            update == TeacherService_updateUserRole(users, userId, newRole,
                                                     additionalData) IN
        /\ users' = update.users
        /\ Returned("TeacherService.updateUserRole", userId, VIEW_STUDENTS,
                    NoResource, newRole, update.value)
    /\ noted' = IF users' # users THEN Written(noted) ELSE noted
    /\ UNCHANGED <<provider, quiz, rolePermissions, currentUser, students, grades,
                   attendanceRecords>>

StudentService_GetStudents ==
    /\ Ready
    /\ \E filter \in FilterArg :
        LET outcome ==
              RequirePermission(users, rolePermissions.RoleBasedAccessControl,
                  currentUser, VIEW_STUDENTS, filter, students,
                  StudentService_getStudents(users, currentUser, students,
                                             filter)) IN
        /\ students' = outcome.store
        /\ Returned("StudentService.getStudents", "none", VIEW_STUDENTS,
                    filter, "none", outcome.value)
    /\ UNCHANGED <<provider, quiz, rolePermissions, users, currentUser, grades,
                   attendanceRecords, noted>>

\* The student updated is 'student1', or one that does not exist.
StudentService_UpdateStudent ==
    /\ Ready
    /\ \E studentId \in {1, AddedStudentId(MaxAdded + 1)},
          updateData \in UpdateData :
        LET outcome ==
              RequirePermission(users, rolePermissions.RoleBasedAccessControl,
                  currentUser, EDIT_STUDENT_INFO, StringArgument,
                  students,
                  StudentService_updateStudent(students, studentId,
                                               updateData)) IN
        /\ students' = outcome.store
        /\ Returned("StudentService.updateStudent", "none", EDIT_STUDENT_INFO,
                    StudentData(studentId), "none", outcome.value)
    /\ UNCHANGED <<provider, quiz, rolePermissions, users, currentUser, grades,
                   attendanceRecords, noted>>

\* Date.now() of the k-th addStudent call is k; the studentData passed are a
\* class and the parent contact '010-1234-5678'.
StudentService_AddStudent ==
    /\ Ready
    /\ Cardinality(DOMAIN students) < 2 + MaxAdded
    /\ \E classId \in ClassId :
        LET now == Cardinality(DOMAIN students) - 1
            outcome ==
              RequirePermission(users, rolePermissions.RoleBasedAccessControl,
                  currentUser, MANAGE_STUDENTS, ClassFilter(classId),
                  students,
                  StudentService_addStudent(students,
                      Student(classId, SampleContact), now)) IN
        /\ students' = outcome.store
        /\ Returned("StudentService.addStudent", "none", MANAGE_STUDENTS,
                    ClassFilter(classId), "none", outcome.value)
    /\ UNCHANGED <<provider, quiz, rolePermissions, users, currentUser, grades,
                   attendanceRecords, noted>>

GradeService_GetGrades ==
    /\ Ready
    /\ \E filter \in RecordFilterArg :
        LET outcome ==
              RequirePermission(users, rolePermissions.RoleBasedAccessControl,
                  currentUser, VIEW_GRADES, filter, grades,
                  GradeService_getGrades(grades, filter)) IN
        /\ grades' = outcome.store
        /\ Returned("GradeService.getGrades", "none", VIEW_GRADES, filter,
                    "none", outcome.value)
    /\ UNCHANGED <<provider, quiz, rolePermissions, users, currentUser, students,
                   attendanceRecords, noted>>

\* The grades written are those of 'student1'.
GradeService_UpdateGrade ==
    /\ Ready
    /\ \E subjectId \in SubjectId :
        LET gradeData == GradeData(1, subjectId)
            outcome ==
              RequirePermission(users, rolePermissions.RoleBasedAccessControl,
                  currentUser, MANAGE_GRADES, gradeData, grades,
                  GradeService_updateGrade(users, currentUser, grades,
                                           gradeData)) IN
        /\ grades' = outcome.store
        /\ Returned("GradeService.updateGrade", "none", MANAGE_GRADES,
                    gradeData, "none", outcome.value)
    /\ UNCHANGED <<provider, quiz, rolePermissions, users, currentUser, students,
                   attendanceRecords, noted>>

\* The grades exported are those of the first class.
GradeService_ExportGrades ==
    /\ Ready
    /\ \E classId \in {1} :
        LET outcome ==
              RequireRole(users, currentUser, HOMEROOM_TEACHER, grades,
                  GradeService_exportGrades(grades, classId)) IN
        /\ grades' = outcome.store
        /\ Returned("GradeService.exportGrades", "none", EXPORT_GRADES,
                    ClassFilter(classId), HOMEROOM_TEACHER, outcome.value)
    /\ UNCHANGED <<provider, quiz, rolePermissions, users, currentUser, students,
                   attendanceRecords, noted>>

AttendanceService_GetAttendance ==
    /\ Ready
    /\ \E filter \in RecordFilterArg :
        LET outcome ==
              RequirePermission(users, rolePermissions.RoleBasedAccessControl,
                  currentUser, VIEW_ATTENDANCE, filter,
                  attendanceRecords,
                  AttendanceService_getAttendance(attendanceRecords, filter)) IN
        /\ attendanceRecords' = outcome.store
        /\ Returned("AttendanceService.getAttendance", "none", VIEW_ATTENDANCE,
                    filter, "none", outcome.value)
    /\ UNCHANGED <<provider, quiz, rolePermissions, users, currentUser, students,
                   grades, noted>>

\* The attendance written is that of 'student1'.
AttendanceService_UpdateAttendance ==
    /\ Ready
    /\ \E studentId \in {1} :
        LET outcome ==
              RequirePermission(users, rolePermissions.RoleBasedAccessControl,
                  currentUser, MANAGE_ATTENDANCE,
                  StudentData(studentId), attendanceRecords,
                  AttendanceService_updateAttendance(attendanceRecords,
                                                     StudentData(studentId))) IN
        /\ attendanceRecords' = outcome.store
        /\ Returned("AttendanceService.updateAttendance", "none",
                    MANAGE_ATTENDANCE, StudentData(studentId), "none",
                    outcome.value)
    /\ UNCHANGED <<provider, quiz, rolePermissions, users, currentUser, students,
                   grades, noted>>

\* The registry and the session: users are created, change role, are
\* activated and deactivated, log in and log out, and call guarded methods.
NextSession ==
    \/ AuthService_Login
    \/ AuthService_Logout
    \/ AuthService_IsAuthenticated
    \/ TeacherService_CreateUser
    \/ TeacherService_UpdateUserRole("RoleChanges")
    \/ StudentService_GetStudents
    \/ GradeService_ExportGrades

SessionSpec == InitSystem /\ [][NextSession]_vars

\* The permissions and resources passed to checkPermission by the callers
\* of the system: a permission that both roles hold and one narrowed by
\* subject, with no resource, the filter of a class and the grade data of a
\* subject.
GuardedPermissions == {VIEW_STUDENTS, MANAGE_GRADES}

GuardedArguments == {NoResource, ClassFilter(1), GradeData(1, 1)}

\* The decision of a checkPermission call may be kept, once, to compare
\* later decisions with it.
Keep(op, subject, permission, resource, decision) ==
    \/ noted' = noted
    \/ /\ noted = Nothing
       /\ noted' = Noted(EngineOf(op), subject, permission, resource, decision)

\* TeacherService.checkPermission called on the running system: the subject
\* is the user the registry holds under the id.
TeacherService_CheckPermissionNow ==
    /\ Ready
    /\ \E userId \in {"teacher1", "teacher2"},
          permission \in GuardedPermissions,
          resource \in GuardedArguments :
        LET decision ==
              TeacherService_checkPermission(users,
                  rolePermissions.RoleBasedAccessControl, userId,
                  permission, resource) IN
        /\ Returned("TeacherService.checkPermission", userId, permission,
                    resource, "none", decision)
        /\ Keep("TeacherService.checkPermission",
                TeacherService_getUserById(users, userId), permission,
                resource, decision)
    /\ UNCHANGED <<provider, quiz, rolePermissions, users, currentUser, students,
                   grades, attendanceRecords>>

\* The User objects a caller of an engine has at hand: the users of the
\* registry as they are now, and a copy of the subject of the kept decision
\* as it was then.
SubjectsAtHand ==
    {users[id] : id \in DOMAIN users}
        \cup (IF noted = Nothing THEN {} ELSE {noted.subject})

\* RoleBasedAccessControl.checkPermission called with a User object.
RBAC_CheckPermissionNow ==
    /\ Ready
    /\ \E user \in SubjectsAtHand,
          permission \in GuardedPermissions,
          resource \in GuardedArguments :
        LET op == "RoleBasedAccessControl.checkPermission"
            decision ==
              RBAC_checkPermission(rolePermissions.RoleBasedAccessControl,
                  user, permission, resource) IN
        /\ call' = Call(op, user, "none", permission, resource, "none", "none")
        /\ result' = decision
        /\ pc' = "returned"
        /\ Keep(op, user, permission, resource, decision)
    /\ UNCHANGED <<provider, quiz, rolePermissions, users, currentUser, students,
                   grades, attendanceRecords>>

\* RBACService.checkPermission called with a User object.
RBACService_CheckPermissionNow ==
    /\ Ready
    /\ \E user \in SubjectsAtHand,
          permission \in GuardedPermissions,
          resource \in GuardedArguments :
        LET op == "RBACService.checkPermission"
            decision ==
              RBACService_checkPermission(rolePermissions.RBACService,
                  user, permission, resource) IN
        /\ call' = Call(op, user, "none", permission, resource, "none", "none")
        /\ result' = decision
        /\ pc' = "returned"
        /\ Keep(op, user, permission, resource, decision)
    /\ UNCHANGED <<provider, quiz, rolePermissions, users, currentUser, students,
                   grades, attendanceRecords>>

\* The decisions: checkPermission of both engines is called while users
\* are deactivated and activated again, and log in and out.
NextDecision ==
    \/ TeacherService_CheckPermissionNow
    \/ RBAC_CheckPermissionNow
    \/ RBACService_CheckPermissionNow
    \/ TeacherService_UpdateUserRole("Activations")
    \/ AuthService_Login
    \/ AuthService_Logout

DecisionSpec == InitSystem /\ [][NextDecision]_vars

\* The guarded services: the sample users log in and out, are given classes
\* and subject lists, are deactivated, and call the methods of the three
\* services.
NextService ==
    \/ AuthService_Login
    \/ AuthService_Logout
    \/ TeacherService_UpdateUserRole("Assignments")
    \/ StudentService_GetStudents
    \/ StudentService_UpdateStudent
    \/ StudentService_AddStudent
    \/ GradeService_GetGrades
    \/ GradeService_UpdateGrade
    \/ GradeService_ExportGrades
    \/ AttendanceService_GetAttendance
    \/ AttendanceService_UpdateAttendance

ServiceSpec == InitSystem /\ [][NextService]_vars

----------------------------------------------------------------------------
(* What the claims speak of.                                               *)

CheckPermissionOps ==
    { "RoleBasedAccessControl.checkPermission", "RBACService.checkPermission",
      "TeacherService.checkPermission", "AuthProvider.checkPermission" }

\* The entry points that decide with class RoleBasedAccessControl; the
\* other two decide with class RBACService.
StandaloneOps ==
    { "RoleBasedAccessControl.checkPermission", "TeacherService.checkPermission" }

\* A checkPermission entry point has returned or thrown.
Decided == pc = "returned" /\ call.op \in CheckPermissionOps

\* The subject the decision is about: the user argument, or the registry
\* entry of the userId argument (NullUser when there is none).
Subject ==
    IF call.op = "TeacherService.checkPermission"
    THEN TeacherService_getUserById(users, call.userId)
    ELSE call.user

\* The baseline table of the engine that decides the call.
Baseline ==
    IF call.op \in StandaloneOps
    THEN rolePermissions.RoleBasedAccessControl
    ELSE rolePermissions.RBACService

\* A decision about an active subject of the given role.
DecidedFor(role) ==
    /\ Decided
    /\ ~Subject.isNull
    /\ Subject.isActive
    /\ Subject.role = role

\* The (role, permission) pairs a narrowing rule is defined for.
Narrowed(role) ==
    IF role = GENERAL_TEACHER
    THEN { MANAGE_GRADES, CONDUCT_COUNSELING, VIEW_STUDENTS, VIEW_GRADES,
           VIEW_ATTENDANCE }
    ELSE { MANAGE_CLASS, MANAGE_STUDENTS, EDIT_STUDENT_INFO }

\* C1: a subject with isActive = false is denied every permission with the
\* 'inactive subject' reason, whatever its role, the permission (also one
\* outside the role's baseline) and the resource (also none).
C1_InactiveSubjectDenied ==
    (Decided /\ ~Subject.isNull /\ ~Subject.isActive)
        => result = Deny(SubjectInactive)

\* An inactive general teacher asked for a permission outside the general
\* teacher's baseline, without a resource, and was denied as inactive.
C1_Witness ==
    /\ Decided
    /\ ~Subject.isNull /\ ~Subject.isActive
    /\ Subject.role = GENERAL_TEACHER
    /\ call.permission = MANAGE_CLASS
    /\ ~call.resource.present
    /\ result = Deny(SubjectInactive)

\* C2: an active subject of either role asking for a permission that is not
\* in its role's baseline table is denied with the 'permission not granted
\* to role' reason, for any resource including none.
C2_OutsideBaselineDenied ==
    \A role \in TeacherRole :
        (DecidedFor(role) /\ call.permission \notin Baseline[role])
            => result = Deny(PermissionNotGrantedToRole)

\* An active general teacher was denied EXPORT_GRADES on a resource that
\* names a class, a subject and a student.
C2_Witness ==
    /\ DecidedFor(GENERAL_TEACHER)
    /\ call.permission = EXPORT_GRADES
    /\ call.resource.present
    /\ call.resource.classId # Undefined
    /\ call.resource.subjectId # Undefined
    /\ call.resource.studentId # Undefined
    /\ result = Deny(PermissionNotGrantedToRole)

\* C3: an active general teacher asking for MANAGE_GRADES is allowed if and
\* only if the resource carries a subjectId that is one of the teacher's
\* subjectIds; every other case is denied with the 'not own subject' reason.
C3_ManageGradesOwnSubject ==
    (DecidedFor(GENERAL_TEACHER) /\ call.permission = MANAGE_GRADES)
        => result =
             IF /\ call.resource.present
                /\ call.resource.subjectId # Undefined
                /\ Subject.subjectIds # NoSubjectIds
                /\ call.resource.subjectId \in Subject.subjectIds
             THEN Allow
             ELSE Deny(NotOwnSubject)

\* A general teacher who teaches a subject asked for MANAGE_GRADES without a
\* resource and was denied.
C3_Witness ==
    /\ DecidedFor(GENERAL_TEACHER)
    /\ call.permission = MANAGE_GRADES
    /\ Subject.subjectIds = {1}
    /\ ~call.resource.present
    /\ result = Deny(NotOwnSubject)

\* C4: an active homeroom teacher asking for MANAGE_CLASS, MANAGE_STUDENTS
\* or EDIT_STUDENT_INFO is allowed when the resource carries the teacher's
\* own classId, denied with the 'not own class' reason when it carries
\* another classId, and allowed when the resource is absent or carries no
\* classId.
C4_HomeroomOwnClass ==
    ( /\ DecidedFor(HOMEROOM_TEACHER)
      /\ call.permission \in {MANAGE_CLASS, MANAGE_STUDENTS, EDIT_STUDENT_INFO} )
        => result =
             IF ~call.resource.present \/ call.resource.classId = Undefined
             THEN Allow
             ELSE IF call.resource.classId = Subject.classId
             THEN Allow
             ELSE Deny(NotOwnClassManage)

\* What the lookups of the engine that decided the call answer.
LookupTeachesClass(teacher, classId) ==
    IF call.op \in StandaloneOps
    THEN RBAC_isTeachingClass(teacher, classId)
    ELSE RBACService_isTeachingClass(teacher, classId)

LookupTeachesStudent(teacher, studentId) ==
    IF call.op \in StandaloneOps
    THEN RBAC_isTeachingStudent(teacher, studentId)
    ELSE RBACService_isTeachingStudent(teacher, studentId)

C6_CounselingOwnStudent ==
    (DecidedFor(GENERAL_TEACHER) /\ call.permission = CONDUCT_COUNSELING)
        => result =
             IF /\ call.resource.present
                /\ call.resource.studentId # Undefined
                /\ LookupTeachesStudent(Subject, call.resource.studentId)
             THEN Allow
             ELSE Deny(NotOwnStudent)

\* The resource named a class and a subject and no student, and the teacher
\* was denied with the 'not own student' reason.
C6_Witness ==
    /\ DecidedFor(GENERAL_TEACHER)
    /\ call.permission = CONDUCT_COUNSELING
    /\ call.resource.present
    /\ call.resource.classId # Undefined
    /\ call.resource.studentId = Undefined
    /\ result = Deny(NotOwnStudent)

\* C7: when the permission is in the baseline of the active subject's role
\* and no narrowing rule is defined for the (role, permission) pair, the
\* decision is allowed for every resource including none.
C7_DefaultAllow ==
    \A role \in TeacherRole :
        ( /\ DecidedFor(role)
          /\ call.permission \in Baseline[role]
          /\ call.permission \notin Narrowed(role) )
            => result = Allow

\* A homeroom teacher was allowed EXPORT_GRADES on a resource that carries a
\* classId other than the teacher's own.
C7_Witness ==
    /\ DecidedFor(HOMEROOM_TEACHER)
    /\ call.permission = EXPORT_GRADES
    /\ call.resource.present
    /\ call.resource.classId # Undefined
    /\ call.resource.classId # Subject.classId
    /\ result = Allow

\* The permissions the feature table maps a feature to (none when the table
\* has no entry for it).
MappedPermissions(screenName) ==
    IF screenName \in DOMAIN screenPermissions
    THEN screenPermissions[screenName]
    ELSE {}

\* checkPermission with no resource context allows at least one of the
\* permissions the feature is mapped to.
SomeMappedPermissionAllowed ==
    \E permission \in MappedPermissions(call.screenName) :
        RBACService_checkPermission(rolePermissions.RBACService,
            call.user, permission, NoResource) = Allow

CanAccessScreenDone ==
    pc = "returned" /\ call.op = "RBACService.canAccessScreen"

\* C8: canAccessScreen returns true if and only if checkPermission with no
\* resource context allows at least one of the permissions the feature
\* table maps the feature to (so a feature with no mapped permission that
\* is allowed yields false).
C8_TrueIffSomeMappedAllowed ==
    CanAccessScreenDone
        => (result = Boolean(TRUE) <=> SomeMappedPermissionAllowed)

GetRolePermissionsDone ==
    pc = "returned" /\ call.op = "RoleBasedAccessControl.getRolePermissions"

\* C9: getRolePermissions is total: all fourteen permissions for the
\* homeroom teacher, the five view, grade and counseling permissions for the
\* general teacher, the empty set for every role value outside the
\* enumeration; and no operation changes the table after construction.
C9_GetRolePermissionsTotal ==
    /\ rolePermissions.RoleBasedAccessControl = RBAC_initializeRolePermissions
    /\ GetRolePermissionsDone
         => result =
              PermissionArray(
                  CASE call.role = HOMEROOM_TEACHER -> Permission
                    [] call.role = GENERAL_TEACHER ->
                         { VIEW_STUDENTS, VIEW_GRADES, MANAGE_GRADES,
                           VIEW_ATTENDANCE, CONDUCT_COUNSELING }
                    [] OTHER -> {})

\* C10: checkPermission called with a role outside the enumeration, or with
\* a null subject, never returns a decision with allowed = false.
C10_MalformedInputNeverDenied ==
    (Decided /\ (Subject.isNull \/ Subject.role \notin TeacherRole))
        => ~(result.kind = "decision" /\ ~result.allowed)

----------------------------------------------------------------------------
(* The school management system: what the claims speak of.                 *)

\* A checkPermission entry point has just decided on the running system.
CheckedNow ==
    /\ pc = "returned"
    /\ call.op \in { "TeacherService.checkPermission",
                     "RoleBasedAccessControl.checkPermission",
                     "RBACService.checkPermission" }

\* The kept decision was made by the engine of the decision just made, about
\* the same subject, permission and resource.
SameInputsAsNoted ==
    /\ noted # Nothing
    /\ noted.engine = EngineOf(call.op)
    /\ noted.subject = Subject
    /\ noted.permission = call.permission
    /\ noted.resource = call.resource

ReasonKinds ==
    {SubjectInactive, PermissionNotGrantedToRole, NotOwnSubject, NotOwnStudent}
        \cup NotOwnClass

\* C12: every decision returned by a checkPermission entry point (the two
\* policy engines, TeacherService.checkPermission and
\* AuthProvider.checkPermission) is either allowed without a reason, or
\* denied with one reason of the five kinds.
C12_DecisionShape ==
    (Decided /\ result.kind = "decision")
        => IF result.allowed THEN result.reason = NoReason
           ELSE result.reason \in ReasonKinds

\* The guarded methods, and the stores they work on.
PermissionGuardedOps ==
    { "StudentService.getStudents", "StudentService.updateStudent",
      "StudentService.addStudent", "GradeService.getGrades",
      "GradeService.updateGrade", "AttendanceService.getAttendance",
      "AttendanceService.updateAttendance" }

RoleGuardedOps == {"GradeService.exportGrades"}

GuardedOps == PermissionGuardedOps \cup RoleGuardedOps

stores == <<students, grades, attendanceRecords>>

\* The first argument of a guarded call, as the guard passes it on to
\* checkPermission: updateStudent's is the student id, a string.
FirstArgument(made) ==
    IF made.op = "StudentService.updateStudent" THEN StringArgument
    ELSE made.resource

\* The session user is logged in and active and, for the guarded call made,
\* holds the permission on the first argument or has the role.
GuardPasses(made) ==
    /\ currentUser # NoUser
    /\ users[currentUser].isActive
    /\ IF made.op \in RoleGuardedOps
       THEN users[currentUser].role = made.role
       ELSE TeacherService_checkPermission(users,
                rolePermissions.RoleBasedAccessControl, currentUser,
                made.permission, FirstArgument(made)).allowed

\* C13: a method guarded by RequirePermission(p) or RequireRole(r) runs its
\* body only when a user is logged in and active and checkPermission on
\* the first argument allows p, respectively the user's role is r.  In
\* every other case the call throws and the students, grades and attendance
\* stores stay as they were; so in a general teacher's session exportGrades
\* and updateAttendance always throw.
C13_GuardedBodyOnlyWhenPermitted ==
    [][(pc' = "returned" /\ call'.op \in GuardedOps)
        => /\ result'.kind # "throw" => GuardPasses(call')
           /\ ~GuardPasses(call')
                => result'.kind = "throw" /\ UNCHANGED stores
           /\ ( /\ currentUser # NoUser
                /\ users[currentUser].role = GENERAL_TEACHER
                /\ call'.op \in { "GradeService.exportGrades",
                                  "AttendanceService.updateAttendance" } )
                => result'.kind = "throw" /\ UNCHANGED stores]_vars

\* A general teacher's updateAttendance was refused, with attendance already
\* recorded by someone else.
C13_Witness ==
    /\ pc = "returned"
    /\ call.op = "AttendanceService.updateAttendance"
    /\ currentUser # NoUser
    /\ users[currentUser].isActive
    /\ users[currentUser].role = GENERAL_TEACHER
    /\ result = AccessDenied(PermissionNotGrantedToRole)
    /\ attendanceRecords # EmptyMap

\* C14: after any sequence of createUser and updateUserRole calls, every
\* user of the registry has ownership attributes that fit its role:
\* classId is set if and only if the role is HomeroomTeacher, and
\* subjectIds is set if and only if the role is GeneralTeacher.
C14_OwnershipFitsRole ==
    \A id \in DOMAIN users :
        /\ Truthy(users[id].classId) <=> users[id].role = HOMEROOM_TEACHER
        /\ users[id].subjectIds # NoSubjectIds
              <=> users[id].role = GENERAL_TEACHER

\* A homeroom teacher with a class is logged in and active.
HomeroomSession ==
    /\ currentUser # NoUser
    /\ users[currentUser].isActive
    /\ users[currentUser].role = HOMEROOM_TEACHER
    /\ Truthy(users[currentUser].classId)

\* C15: in the session of a logged-in homeroom teacher, updateStudent for
\* an existing student of the teacher's class passes the EDIT_STUDENT_INFO
\* guard, applies the update and returns true; and
\* TeacherService.checkPermission for that teacher on MANAGE_CLASS without
\* a resource is allowed.
C15_HomeroomUpdatesOwnStudent ==
    /\ ( /\ HomeroomSession
         /\ pc = "returned"
         /\ call.op = "StudentService.updateStudent"
         /\ call.resource.studentId \in DOMAIN students
         /\ students[call.resource.studentId].classId
              = users[currentUser].classId )
        => /\ result = Boolean(TRUE)
           /\ students[call.resource.studentId].parentContact = UpdatedContact
    /\ HomeroomSession
        => TeacherService_checkPermission(users,
               rolePermissions.RoleBasedAccessControl, currentUser,
               MANAGE_CLASS, NoResource).allowed

\* A general teacher is the current user.
GeneralSession ==
    currentUser # NoUser /\ users[currentUser].role = GENERAL_TEACHER

\* C16: whatever logins, logouts and updateGrade calls came before, a
\* record that updateGrade writes to the grades store while a general
\* teacher is the current user has a subjectId that is in that teacher's
\* subjectIds at the time of the write, and the write touches no other
\* record; an updateGrade that is rejected leaves the grades store as it
\* was.
C16_GradesOnlyInOwnSubject ==
    [][(pc' = "returned" /\ call'.op = "GradeService.updateGrade")
        => LET gradeData == call'.resource IN
           /\ result'.kind = "throw" => grades' = grades
           /\ result' = Boolean(TRUE)
                => /\ GradeId(gradeData) \in DOMAIN grades'
                   /\ grades'[GradeId(gradeData)].subjectId = gradeData.subjectId
                   /\ \A id \in DOMAIN grades' \ {GradeId(gradeData)} :
                         id \in DOMAIN grades /\ grades'[id] = grades[id]
           /\ (result' = Boolean(TRUE) /\ GeneralSession)
                => /\ users[currentUser].subjectIds # NoSubjectIds
                   /\ gradeData.subjectId \in users[currentUser].subjectIds
           /\ result'.kind = "throw" \/ result' = Boolean(TRUE)]_vars

\* A general teacher who teaches 'math' only has written a math grade, and
\* the store holds a grade of another subject as well.
C16_Witness ==
    /\ pc = "returned"
    /\ call.op = "GradeService.updateGrade"
    /\ result = Boolean(TRUE)
    /\ GeneralSession
    /\ users[currentUser].subjectIds = {1}
    /\ call.resource.subjectId = 1
    /\ \E id \in DOMAIN grades : grades[id].subjectId # 1

\* getStudents has returned in the session of a homeroom teacher with a
\* class.
HomeroomGotStudents ==
    /\ pc = "returned"
    /\ call.op = "StudentService.getStudents"
    /\ HomeroomSession
    /\ result.kind = "students"

\* C17: getStudents called in the session of a homeroom teacher that has a
\* classId returns only students whose classId is the teacher's classId,
\* for every filter; when the filter names another class the result is
\* empty, not the students of that class.
C17_HomeroomSeesOwnClassOnly ==
    HomeroomGotStudents
        => /\ \A id \in result.items :
                /\ id \in DOMAIN students
                /\ students[id].classId = users[currentUser].classId
           /\ ( /\ Truthy(ResourceClassId(call.resource))
                /\ call.resource.classId # users[currentUser].classId )
                => result.items = {}

\* The filter names another class, which has students, and the result is
\* empty.
C17_Witness ==
    /\ HomeroomGotStudents
    /\ Truthy(ResourceClassId(call.resource))
    /\ call.resource.classId # users[currentUser].classId
    /\ \E id \in DOMAIN students : students[id].classId = call.resource.classId
    /\ result = StudentArray({})

\* RoleBasedAccessControl.checkPermission has decided (not thrown).
StandaloneDecided ==
    /\ pc = "returned"
    /\ call.op = "RoleBasedAccessControl.checkPermission"
    /\ result.kind = "decision"

\* What RBACService.checkPermission returns for the inputs of the call.
ServiceDecision ==
    RBACService_checkPermission(rolePermissions.RBACService,
                                call.user, call.permission, call.resource)

\* C18: on the same subject, permission and resource the standalone
\* RoleBasedAccessControl is at least as strict as RBACService: what it
\* allows, RBACService allows; and the two return the same decision when
\* the subject is inactive, when the permission is outside the baseline of
\* the subject's role, and for MANAGE_GRADES and CONDUCT_COUNSELING of a
\* general teacher.
C18_StandaloneAtLeastAsStrict ==
    StandaloneDecided
        => /\ result.allowed => ServiceDecision.allowed
           /\ ( \/ ~call.user.isActive
                \/ call.permission \notin
                     TableLookup(rolePermissions.RoleBasedAccessControl,
                                 call.user.role).items
                \/ /\ call.user.role = GENERAL_TEACHER
                   /\ call.permission \in {MANAGE_GRADES, CONDUCT_COUNSELING} )
                => result = ServiceDecision

\* The standalone engine allows an active general teacher MANAGE_GRADES on
\* a subject of the teacher's list, and so does RBACService.
C18_Witness ==
    /\ StandaloneDecided
    /\ call.user.isActive
    /\ call.user.role = GENERAL_TEACHER
    /\ call.permission = MANAGE_GRADES
    /\ result = Allow
    /\ ServiceDecision = Allow

\* The calls that leave the session to AuthService.login and logout.
SessionOps == {"AuthService.login", "AuthService.logout"}

\* The session user is the user of the most recent successful login that no
\* logout has followed: a login that returns a user makes that user, who is
\* active, the session user; a logout leaves no session user; a login that
\* returns null and every other call leave the session user as it was.
SessionFollowsLogins ==
    /\ (call'.op = "AuthService.login" /\ result'.kind = "user")
         => /\ currentUser' = result'.reason
            /\ currentUser' \in DOMAIN users
            /\ users[currentUser'].isActive
    /\ (call'.op = "AuthService.login" /\ result'.kind # "user")
         => currentUser' = currentUser
    /\ call'.op = "AuthService.logout" => currentUser' = NoUser
    /\ call'.op \notin SessionOps => currentUser' = currentUser

\* That user, if any, is active in the registry.
LoggedInAndActive == currentUser # NoUser /\ users[currentUser].isActive

\* C19: isAuthenticated() is true exactly when the most recent successful
\* login has not been followed by a logout and that user is still active.
\* So it is false after every logout, and false once updateUserRole has
\* deactivated the logged-in user, without a logout; and while it is false
\* every guarded service call throws.
C19_AuthenticatedIffLoggedInAndActive ==
    /\ [][SessionFollowsLogins]_vars
    /\ []((pc = "returned" /\ call.op = "AuthService.isAuthenticated")
            => result = Boolean(LoggedInAndActive))
    /\ [][(call'.op \in GuardedOps /\ ~LoggedInAndActive)
            => result' = Threw(AuthenticationRequired)]_vars

\* isAuthenticated() has returned false for a session user whom
\* updateUserRole has deactivated; nobody logged out.
C19_Witness ==
    /\ pc = "returned"
    /\ call.op = "AuthService.isAuthenticated"
    /\ currentUser # NoUser
    /\ ~users[currentUser].isActive
    /\ result = Boolean(FALSE)

\* The users of the registry who have this email.
UsersWithEmail(email) == {id \in DOMAIN users : users[id].email = email}

\* The user an email stands for: of the users who have it, the one that was
\* registered first.
UserOfEmail(email) ==
    LET found == {i \in DOMAIN InsertionOrder :
                    InsertionOrder[i] \in UsersWithEmail(email)} IN
    InsertionOrder[CHOOSE i \in found : \A j \in found : i <= j]

\* The email is unknown, or it is the email of an inactive user.
UnknownOrInactiveEmail(email) ==
    \/ UsersWithEmail(email) = {}
    \/ ~users[UserOfEmail(email)].isActive

\* C20: a login attempt with an unknown email or with an inactive user's
\* email returns null and leaves the current session unchanged: who was the
\* current user before the attempt is the current user after it, and no
\* login that returns null makes an inactive user the current user.
C20_FailedLoginLeavesSession ==
    /\ [][(call'.op = "AuthService.login"
             /\ UnknownOrInactiveEmail(call'.userId))
            => (result' = Null /\ currentUser' = currentUser)]_vars
    /\ [][(call'.op = "AuthService.login" /\ result' = Null)
            => /\ currentUser' = currentUser
               /\ UnknownOrInactiveEmail(call'.userId)]_vars
    /\ [][(call'.op = "AuthService.login" /\ currentUser' # currentUser)
            => users[currentUser'].isActive]_vars

\* A login with the email of an inactive user has returned null while
\* another user was logged in, and that user is still the current user.
C20_Witness ==
    /\ pc = "returned"
    /\ call.op = "AuthService.login"
    /\ result = Null
    /\ UsersWithEmail(call.userId) # {}
    /\ currentUser # NoUser
    /\ users[currentUser].email # call.userId

----------------------------------------------------------------------------
(* The AuthProvider as a state machine: every step is one function of the  *)
(* provider running from one await to the next.                            *)

\* The 'user' item in storage when the provider is first rendered: none, or
\* the one an earlier login has stored.
StoredAtMount == {NoItem, JSON_stringify(SampleUser("teacher1"))}

InitProvider ==
    /\ SchoolManagementSystem_constructor
    /\ noted = Nothing
    /\ \E item \in StoredAtMount : provider = AuthProvider_mounted(item)
    /\ quiz = NoPage
    /\ call = NoCall
    /\ pc = "idle"
    /\ result = NoResult

\* What the provider's steps leave alone.
system ==
    <<rolePermissions, users, currentUser, students, grades,
      attendanceRecords, noted, quiz, call, pc, result>>

AuthProvider_CheckStoredAuth_GetItem ==
    /\ provider.mount.pc = "getItem"
    /\ provider' = AuthProvider_checkStoredAuth_getItem(provider)
    /\ UNCHANGED system

AuthProvider_CheckStoredAuth_SetUser ==
    /\ provider.mount.pc = "parse"
    /\ provider' = AuthProvider_checkStoredAuth_setUser(provider)
    /\ UNCHANGED system

\* login(email, password) is called; the call takes the first free place.
AuthProvider_Login_Call ==
    /\ \E i \in 1..MaxLogins, email \in LoginEmail :
        /\ provider.login[i].pc = "idle"
        /\ \A j \in 1..(i - 1) : provider.login[j].pc # "idle"
        /\ provider' = AuthProvider_login_call(provider, i, email)
    /\ UNCHANGED system

\* The 1000 ms lookup of a login resolves.
AuthProvider_Login_Lookup ==
    /\ \E i \in 1..MaxLogins :
        /\ provider.login[i].pc = "lookup"
        /\ provider' = AuthProvider_login_lookup(provider, i)
    /\ UNCHANGED system

\* AsyncStorage.setItem of a login completes.
AuthProvider_Login_SetItem ==
    /\ \E i \in 1..MaxLogins :
        /\ provider.login[i].pc = "setItem"
        /\ provider' = AuthProvider_login_setItem(provider, i)
    /\ UNCHANGED system

\* logout() is called; one logout runs at a time.
AuthProvider_Logout_Call ==
    /\ provider.logout = "idle"
    /\ provider' = AuthProvider_logout_call(provider)
    /\ UNCHANGED system

\* AsyncStorage.removeItem of the logout completes.
AuthProvider_Logout_RemoveItem ==
    /\ provider.logout = "removeItem"
    /\ provider' = AuthProvider_logout_removeItem(provider)
    /\ UNCHANGED system

\* The 500 ms call of authService.logout() resolves.
AuthProvider_Logout_Resolved ==
    /\ provider.logout = "authLogout"
    /\ provider' = AuthProvider_logout_resolved(provider)
    /\ UNCHANGED system

NextProvider ==
    \/ AuthProvider_CheckStoredAuth_GetItem
    \/ AuthProvider_CheckStoredAuth_SetUser
    \/ AuthProvider_Login_Call
    \/ AuthProvider_Login_Lookup
    \/ AuthProvider_Login_SetItem
    \/ AuthProvider_Logout_Call
    \/ AuthProvider_Logout_RemoveItem
    \/ AuthProvider_Logout_Resolved

ProviderSpec == InitProvider /\ [][NextProvider]_vars

----------------------------------------------------------------------------
(* The AuthProvider: what the claims speak of.                             *)

\* checkStoredAuth has finished: from here on only logins and logouts
\* write the session user and the item.
Restored == provider.mount.pc = "done"

\* C21: once logout() has completed and no login() has been started since,
\* the session user is null and isAuthenticated is false, whatever the
\* order of the steps of the logins and the logout, a login started before
\* the logout and resolving after it included; and whenever the session
\* user is null, storage has no 'user' item.
C21_LoggedOutStaysLoggedOut ==
    Restored =>
        /\ provider.loggedOut
             => /\ provider.user = NoSessionUser
                /\ ~AuthProvider_isAuthenticated(provider)
        /\ provider.user = NoSessionUser => provider.item = NoItem

----------------------------------------------------------------------------
(* The quiz as a state machine.                                            *)

InitQuiz ==
    /\ SchoolManagementSystem_constructor
    /\ noted = Nothing
    /\ provider = NoProvider
    /\ \E questions \in TestQuestions : quiz = Quiz_loaded(questions)
    /\ call = NoCall
    /\ pc = "idle"
    /\ result = NoResult

\* What the quiz's steps leave alone.
rest ==
    <<rolePermissions, users, currentUser, students, grades,
      attendanceRecords, noted, provider, call, pc, result>>

\* showScreen is called with a screen id, on any screen and with or without
\* timers pending: a navigation button is clicked.
Quiz_ShowScreen ==
    /\ \E screenId \in ScreenId :
        /\ screenId = "test-screen" => quiz.started < MaxTests
        /\ quiz' = Quiz_showScreen(quiz, screenId)
    /\ UNCHANGED rest

\* An option button of the test screen is clicked.
Quiz_SelectAnswer ==
    /\ quiz.currentScreen = "test-screen"
    /\ quiz.timers < MaxTimers
    /\ \E option \in Option : quiz' = Quiz_selectAnswer(quiz, option)
    /\ UNCHANGED rest

\* An advance timer fires, 500 ms after the click that set it, whatever the
\* screen is by then.
Quiz_Advance ==
    /\ quiz.timers > 0
    /\ quiz' = Quiz_advance(quiz)
    /\ UNCHANGED rest

NextQuiz ==
    \/ Quiz_ShowScreen
    \/ Quiz_SelectAnswer
    \/ Quiz_Advance

QuizSpec == InitQuiz /\ [][NextQuiz]_vars

----------------------------------------------------------------------------
(* The quiz: what the claims speak of.                                     *)

\* The test was started once: what the page holds is the first test's.
FirstTest == quiz.started = 1

\* C22: from startTest until calculateResult runs, every question index
\* 0..N-1 has been displayed and has one recorded answer, and
\* calculateResult runs once, whatever the order of the clicks and of the
\* advance timers, two clicks on one question before its timer fires
\* included.  Stated of the first test, which no second startTest
\* interrupts.
C22_EveryQuestionAnsweredOnce ==
    FirstTest =>
        /\ quiz.calculated <= 1
        /\ quiz.calculated >= 1
             => /\ quiz.displayed = QuestionIndex
                /\ \A index \in QuestionIndex : quiz.answers[index] \in Option

====
